---- MODULE Spec2Model ----
(***************************************************************************)
(* Model of the Prevalence Estimator Data Export staging scripts:          *)
(*   src/src/scripts/input_processing.py   (input pipeline)                *)
(*   src/src/scripts/output_processing.py  (output pipeline)               *)
(*                                                                         *)
(* A JSON mapping is a record over a fixed key set in which the value      *)
(* Absent stands for "key not in dict" and Null for JSON null / None.      *)
(* All scalar JSON values are strings of the model; JTrue / JFalse are the *)
(* JSON booleans.                                                          *)
(***************************************************************************)
EXTENDS Integers, Sequences, FiniteSets, TLC

\* ------------------------------------------------------------------ bounds
MaxTests == 2
MaxSamples == 2
MaxSubadmins == 1
MaxManifest == 1

\* ------------------------------------------------------------------ values
Absent == "#absent"
Null == "#null"
JTrue == "#true"
JFalse == "#false"

\* needed_keys_with_defaults: the seven canonical fields, each defaulting to None
CanonicalFields ==
  {"id", "sub_administrative_area_id", "species", "age_group", "sex",
   "sample_source", "result"}

needed_keys_with_defaults == [k \in CanonicalFields |-> Null]

\* ------------------------------------------------------------ input domains
\* one element of a sample's tests list
TestEntries ==
  [selected_definitive : {Absent, JTrue, JFalse}, result : {Absent, "A", "B"}]

RECURSIVE SeqsUpTo(_, _)
SeqsUpTo(S, n) ==
  IF n = 0 THEN {<<>>}
  ELSE LET shorter == SeqsUpTo(S, n - 1)
       IN  shorter \cup {Append(s, e) : s \in {t \in shorter : Len(t) = n - 1}, e \in S}

\* the tests field: absent, a list of entries, or a value that is not a list
\* (JSON null or a number)
TestsValues ==
  {[kind |-> "absent", items |-> <<>>], [kind |-> "malformed", items |-> <<>>]}
    \cup {[kind |-> "list", items |-> s] : s \in SeqsUpTo(TestEntries, MaxTests)}

\* the _sub_administrative_area field: absent, JSON null, or an object with or
\* without an _id
SubAreaValues ==
  {[kind |-> "absent", _id |-> Absent], [kind |-> "null", _id |-> Absent],
   [kind |-> "object", _id |-> Absent], [kind |-> "object", _id |-> "area1"]}

SampleRecords ==
  [id : {Absent, "top_id"},
   sub_administrative_area_id : {Absent, "top_area"},
   species : {Absent, "deer"},
   age_group : {Absent, "adult"},
   sex : {Absent, "female"},
   sample_source : {Absent, "hunter"},
   result : {Absent, "top_result"},
   _id : {Absent, "s1"},
   _sub_administrative_area : SubAreaValues,
   tests : TestsValues]

\* ------------------------------------------------------ sample normalization
\* variant: the defaults are never added
add_missing_defaults_inplace_Noop(original_dict, default_values) == original_dict

\* add_missing_defaults_inplace: a key of default_values missing from
\* original_dict is added with its default; present keys are left alone
add_missing_defaults_inplace(original_dict, default_values) ==
  [k \in DOMAIN original_dict |->
     IF k \in DOMAIN default_values /\ original_dict[k] = Absent
       THEN default_values[k]
       ELSE original_dict[k]]

\* try: sample['id'] = sample['_id'] / except KeyError: pass
SetSampleId(sample) ==
  IF sample._id # Absent THEN [sample EXCEPT !.id = sample._id] ELSE sample

\* try: sample["sub_administrative_area_id"] = sample['_sub_administrative_area']['_id']
\* except (KeyError, TypeError): pass
SetSubAreaId(sample) ==
  LET area == sample._sub_administrative_area
  IN  IF area.kind = "object" /\ area._id # Absent
        THEN [sample EXCEPT !.sub_administrative_area_id = area._id]
        ELSE sample

\* variant: the filter tests only that the key is present
tests_selected_definitive_KeyOnly(tests) ==
  SelectSeq(tests, LAMBDA test : test.selected_definitive # Absent)

\* [test for test in sample["tests"]
\*    if "selected_definitive" in test and test["selected_definitive"] == True]
tests_selected_definitive(tests) ==
  SelectSeq(tests, LAMBDA test :
    test.selected_definitive # Absent /\ test.selected_definitive = JTrue)

\* len(sample['tests']) raises TypeError when tests is present and not a list
ResultRaises(sample) == sample.tests.kind = "malformed"

\* the "Set result" block of the sample loop
SetResult(sample) ==
  IF sample.tests.kind # "absent" /\ Len(sample.tests.items) > 0
    THEN LET sel == tests_selected_definitive(sample.tests.items)
         IN  IF Len(sel) = 1
               THEN IF sel[1].result # Absent
                      THEN [sample EXCEPT !.result = sel[1].result]
                      ELSE sample
               ELSE [sample EXCEPT !.result = Null]
    ELSE [sample EXCEPT !.result = Null]

\* one iteration of "for sample in samples": the record after the iteration,
\* or the record as it stands when the iteration raises
NormalizeSample(sample) ==
  LET filled == add_missing_defaults_inplace(sample, needed_keys_with_defaults)
      withId == SetSampleId(filled)
      withArea == SetSubAreaId(withId)
  IN  IF ResultRaises(withArea)
        THEN [raised |-> TRUE, rec |-> withArea]
        ELSE [raised |-> FALSE, rec |-> SetResult(withArea)]


\* --------------------------------------------------------- sub-area records
SubadminRecords ==
  [id : {Absent, "top_id"}, _id : {Absent, "a1"}, full_name : {Absent, "Albany"}]

\* try: subadmin['id'] = subadmin['_id'] / except (KeyError, TypeError): pass
SetSubadminId(subadmin) ==
  IF subadmin._id # Absent THEN [subadmin EXCEPT !.id = subadmin._id] ELSE subadmin

\* ------------------------------------------------------- parameter document
\* params.json: the _provider entry is absent, an object without the nested
\* administrative_area, or an object carrying it
ProviderValues ==
  {[kind |-> "absent", administrative_area |-> Absent],
   [kind |-> "object", administrative_area |-> Absent],
   [kind |-> "object", administrative_area |-> "NY"]}

NoProvider == [kind |-> "absent", administrative_area |-> Absent]

ParamDocs ==
  [_provider : ProviderValues, season_year : {Absent, "2023"}, species : {Absent, "deer"}]

\* JSON numbers among the scalar values
NumberValues == {"2023"}

\* key order of the loaded parameter dict
ParamKeyOrder == <<"_provider", "season_year", "species">>

HasParamKey(params, k) ==
  IF k = "_provider" THEN params._provider.kind # "absent" ELSE params[k] # Absent

\* params.keys()
ParamKeys(params) == SelectSeq(ParamKeyOrder, LAMBDA k : HasParamKey(params, k))

\* params['_provider']['_administrative_area']['administrative_area'] raises
\* KeyError when a level is missing
ProviderRaises(params) == params._provider.administrative_area = Absent

\* variant: the provider entry is left in the dict
StripProvider_Keep(params) == params

\* del(params['_provider'])
StripProvider(params) == [params EXCEPT !._provider = NoProvider]

\* ------------------------------------------------------------ tabular writer
NotWritten == [written |-> FALSE, header |-> <<>>, rows |-> <<>>]

\* csv.QUOTE_NONNUMERIC: numbers are written bare, everything else quoted;
\* None and a missing column (restval '') are written as the quoted empty string
CsvCell(v) ==
  IF v = Null \/ v = Absent THEN [quoted |-> TRUE, text |-> ""]
  ELSE IF v \in NumberValues THEN [quoted |-> FALSE, text |-> v]
  ELSE [quoted |-> TRUE, text |-> v]

\* csv.DictWriter(fieldnames, extrasaction='ignore'): writeheader then writerows
DictWriterFile(fieldnames, rowdicts) ==
  [written |-> TRUE,
   header |-> fieldnames,
   rows |-> [i \in 1..Len(rowdicts) |->
               [j \in 1..Len(fieldnames) |-> CsvCell(rowdicts[i][fieldnames[j]])]]]

SampleFieldnames ==
  <<"id", "sub_administrative_area_id", "species", "age_group", "sex",
    "sample_source", "result">>

SubadminFieldnames == <<"id", "full_name">>

\* ---------------------------------------------------------------- run report
\* model_log_html: append one tagged line to info.html
model_log_html(narr, line, html_element, arg) ==
  Append(narr, [tag |-> html_element, text |-> line, arg |-> arg])

ErrorHeading == [tag |-> "h4", text |-> "ERROR", arg |-> ""]

\* variant: the handler writes its message without the ERROR heading
ReportMissingInput_NoHeading(narr, message) == model_log_html(narr, message, "p", "")

\* the two narrative lines of every Missing-Input handler
ReportMissingInput(narr, message) ==
  model_log_html(model_log_html(narr, "ERROR", "h4", ""), message, "p", "")

\* logging.info / logging.error on the configured execution log
LogLine(lg, level, msg) == Append(lg, [level |-> level, msg |-> msg])

UncaughtMsg == "Uncaught exception"

\* sys.excepthook at the time an exception escapes: handle_uncaught_exception
\* logs it once installed; the default hook writes to stderr only
ExceptHook(lg, installed) ==
  IF installed THEN LogLine(lg, "ERROR", UncaughtMsg) ELSE lg

\* attachments.json
ExecutionLogAttachment ==
  [filename |-> "execution_log.log", content_type |-> "text/plain", role |-> "downloadable"]

InfoAttachment ==
  [filename |-> "info.html", content_type |-> "text/html", role |-> "feedback"]

SpreadsheetAttachment ==
  [filename |-> "PrevalenceEstimatorData.xlsx",
   content_type |-> "application/vnd.openxmlformats-officedocument.spreadsheetml.sheet",
   role |-> "downloadable"]

\* variant: the file is rewritten with the new item alone
add_item_to_json_file_list_Replace(file, new_item) ==
  IF file.kind = "list"
    THEN [raised |-> FALSE, file |-> [file EXCEPT !.items = <<new_item>>]]
    ELSE [raised |-> TRUE, file |-> file]

\* add_item_to_json_file_list: raises when the file is missing, is not JSON or
\* does not hold a list; otherwise rewrites the file with the item appended
add_item_to_json_file_list(file, new_item) ==
  IF file.kind = "list"
    THEN [raised |-> FALSE, file |-> [file EXCEPT !.items = Append(@, new_item)]]
    ELSE [raised |-> TRUE, file |-> file]


\* ------------------------------------------------------------- model output
\* SpeedGoatOutputMatrix.csv as read by pandas: a header and data rows
ModelTables ==
  {[header |-> <<"area", "prevalence">>, rows |-> r] :
     r \in {<<>>, <<(<<"a1", "0.1">>)>>}}

NoTable == [header |-> <<>>, rows |-> <<>>]

\* the parameter table: fieldnames are params.keys(), one data row; a nested
\* value is written as the quoted text of the dict
ParamCell(params, k) ==
  IF k = "_provider" THEN [quoted |-> TRUE, text |-> "{provider}"] ELSE CsvCell(params[k])

WriteParamsFile(params) ==
  LET field_names == ParamKeys(params)
  IN  [written |-> TRUE,
       header |-> field_names,
       rows |-> <<[j \in 1..Len(field_names) |-> ParamCell(params, field_names[j])]>>]

\* --------------------------------------------------------- pipeline inputs
\* records of sample.ndJson as staged for a pipeline run
PipelineSamples ==
  [id : {Absent},
   sub_administrative_area_id : {Absent},
   species : {"deer"},
   age_group : {Absent},
   sex : {"female"},
   sample_source : {Absent},
   result : {Absent, "top_result"},
   _id : {"s1"},
   _sub_administrative_area : {[kind |-> "object", _id |-> "area1"]},
   tests : {[kind |-> "absent", items |-> <<>>],
            [kind |-> "malformed", items |-> <<>>],
            [kind |-> "list", items |-> <<[selected_definitive |-> JTrue, result |-> Absent]>>],
            [kind |-> "list", items |-> <<[selected_definitive |-> JTrue, result |-> "A"]>>]}]

\* attachments.json as found by an invocation
StaleManifests ==
  {[kind |-> "absent", items |-> <<>>],
   [kind |-> "invalid", items |-> <<>>],
   [kind |-> "notlist", items |-> <<>>]}
    \cup {[kind |-> "list", items |-> s] :
            s \in SeqsUpTo({ExecutionLogAttachment, InfoAttachment}, MaxManifest)}

\* info.html and execution_log.log as left by an earlier invocation
StaleNarratives ==
  {<<>>, <<ErrorHeading, [tag |-> "p", text |-> "stale", arg |-> ""]>>}

StaleLogs == {<<>>, <<[level |-> "ERROR", msg |-> "stale"]>>}

\* -------------------------------------------------------------------- state
VARIABLES
  pipeline,        \* which script this invocation runs
  pc,              \* position in the script
  status,          \* process exit status once pc = "exited"
  outcome,         \* "running", "ok", "missing_input" or "uncaught"
  failedStep,      \* the load step whose except block ran, or "none"
  loaded,          \* load steps that succeeded in this invocation
  hook,            \* sys.excepthook is handle_uncaught_exception
  manifest,        \* attachments.json
  manifest0,       \* attachments.json as found at process start
  narrative,       \* info.html
  log,             \* execution_log.log
  paramsJson,      \* the params.json document as read
  params,          \* the loaded parameter dict
  provider_admin_area,
  samples,         \* the loaded sample records
  idx,             \* index of the next sample of the loop
  subadmins,       \* the loaded sub-area records
  paramsCsv,       \* /data/params.csv as written by this invocation
  sampleCsv,       \* /data/sample.csv
  subadminCsv,     \* /data/sub_administrative_area.csv
  df,              \* the DataFrame read from the model output
  xlsx,            \* PrevalenceEstimatorData.xlsx as written by this invocation
  normIn,          \* a sample record handed to the normalizer
  normOut,         \* its normalization
  normDone

vars ==
  <<pipeline, pc, status, outcome, failedStep, loaded, hook, manifest, manifest0,
    narrative, log, paramsJson, params, provider_admin_area, samples, idx, subadmins,
    paramsCsv, sampleCsv, subadminCsv, df, xlsx, normIn, normOut, normDone>>

dataVars == <<paramsJson, params, provider_admin_area, samples, idx, subadmins, df>>
fileVars == <<paramsCsv, sampleCsv, subadminCsv, xlsx>>
normVars == <<normIn, normOut, normDone>>

EmptyParams == [_provider |-> NoProvider, season_year |-> Absent, species |-> Absent]

BlankSample ==
  [id |-> Absent, sub_administrative_area_id |-> Absent, species |-> Absent,
   age_group |-> Absent, sex |-> Absent, sample_source |-> Absent, result |-> Absent,
   _id |-> Absent, _sub_administrative_area |-> [kind |-> "absent", _id |-> Absent],
   tests |-> [kind |-> "absent", items |-> <<>>]]

InitCommon ==
  /\ status = 0
  /\ outcome = "running"
  /\ failedStep = "none"
  /\ loaded = {}
  /\ hook = FALSE
  /\ paramsJson = EmptyParams
  /\ params = EmptyParams
  /\ provider_admin_area = Absent
  /\ samples = <<>>
  /\ idx = 1
  /\ subadmins = <<>>
  /\ paramsCsv = NotWritten
  /\ sampleCsv = NotWritten
  /\ subadminCsv = NotWritten
  /\ df = NoTable
  /\ xlsx = NotWritten

Init ==
  /\ pipeline \in {"input", "output"}
  /\ pc = IF pipeline = "input" THEN "in_setup" ELSE "out_start"
  /\ manifest \in StaleManifests
  /\ manifest0 = manifest
  /\ narrative \in StaleNarratives
  /\ log \in StaleLogs
  /\ InitCommon
  /\ normIn = BlankSample
  /\ normOut = [raised |-> FALSE, rec |-> BlankSample]
  /\ normDone = FALSE

\* ------------------------------------------------------ process termination
\* variant: the except block records the failure and falls through
ExitMissingInput_FallThrough(step) ==
  /\ pc' = (CASE step = "params" -> "in_provider"
              [] step = "samples" -> "in_normalize"
              [] step = "subadmins" -> "in_subadmin_ids"
              [] OTHER -> "out_write_xlsx")
  /\ status' = status
  /\ outcome' = "missing_input"
  /\ failedStep' = step

\* variant: the except block exits with status 0
ExitMissingInput_StatusZero(step) ==
  /\ pc' = "exited"
  /\ status' = 0
  /\ outcome' = "missing_input"
  /\ failedStep' = step

\* sys.exit(1) in the except block of a load step
ExitMissingInput(step) ==
  /\ pc' = "exited"
  /\ status' = 1
  /\ outcome' = "missing_input"
  /\ failedStep' = step

\* an exception nobody catches: sys.excepthook runs, the interpreter exits 1
ExitUncaught ==
  /\ pc' = "exited"
  /\ status' = 1
  /\ outcome' = "uncaught"
  /\ log' = ExceptHook(log, hook)
  /\ UNCHANGED failedStep

\* the script runs off its end
ExitOk ==
  /\ pc' = "exited"
  /\ status' = 0
  /\ outcome' = "ok"
  /\ UNCHANGED failedStep

Continue(next) ==
  /\ pc' = next
  /\ UNCHANGED <<status, outcome, failedStep>>


\* ----------------------------------------------------------- input pipeline
\* SETUP FILE STRUCTURE: attachments.json is created as an empty list and the
\* two report attachments are added; the open for writing can fail
InSetup ==
  /\ pc = "in_setup"
  /\ \E writable \in BOOLEAN :
       IF writable
         THEN LET empty == [kind |-> "list", items |-> <<>>]
                  one == add_item_to_json_file_list(empty, ExecutionLogAttachment).file
                  two == add_item_to_json_file_list(one, InfoAttachment).file
              IN  /\ manifest' = two
                  /\ Continue("in_logging")
                  /\ UNCHANGED log
         ELSE /\ ExitUncaught
              /\ UNCHANGED manifest
  /\ UNCHANGED <<loaded, hook, manifest0, narrative, dataVars, fileVars, normVars, pipeline>>

\* SETUP LOGGING: basicConfig(filemode='w') truncates the execution log, then
\* sys.excepthook = handle_uncaught_exception
InLogging ==
  /\ pc = "in_logging"
  /\ log' = <<>>
  /\ hook' = TRUE
  /\ Continue("in_narrative")
  /\ UNCHANGED <<loaded, manifest, manifest0, narrative, dataVars, fileVars, normVars, pipeline>>

\* Initiate model metadata log: info.html is truncated and gets its heading
InNarrative ==
  /\ pc = "in_narrative"
  /\ narrative' =
       model_log_html(
         model_log_html(
           model_log_html(<<>>, "Model Execution Summary", "h3", ""),
           "Model: Prevalence Estimator Data Export", "p", ""),
         "Date", "p", "")
  /\ log' = LogLine(LogLine(LogLine(log, "INFO", "Model"), "INFO", "Date"), "INFO", "debug note")
  /\ Continue("in_load_params")
  /\ UNCHANGED <<loaded, hook, manifest, manifest0, dataVars, fileVars, normVars, pipeline>>

ParamsMissingMsg == "Parameters (params.json) file not found."
SamplesMissingMsg == "Samples (sample.ndjson) file not found."
SubadminsMissingMsg == "Sub-administrative areas file not found."

\* Get model parameters file
InLoadParams ==
  /\ pc = "in_load_params"
  /\ \/ \E doc \in ParamDocs :
          /\ paramsJson' = doc
          /\ params' = doc
          /\ log' = LogLine(log, "INFO", "Parameter file loaded successfully")
          /\ loaded' = loaded \cup {"params"}
          /\ Continue("in_provider")
          /\ UNCHANGED narrative
     \/ /\ log' = LogLine(log, "ERROR", "params.json File does not exist.")
        /\ narrative' = ReportMissingInput(narrative, ParamsMissingMsg)
        /\ ExitMissingInput("params")
        /\ UNCHANGED <<paramsJson, params, loaded>>
  /\ UNCHANGED <<hook, manifest, manifest0, provider_admin_area, samples, idx,
                 subadmins, df, fileVars, normVars, pipeline>>

\* Get provider admin area, then remove the provider parameter
InProvider ==
  /\ pc = "in_provider"
  /\ IF ProviderRaises(params)
       THEN /\ ExitUncaught
            /\ UNCHANGED <<params, provider_admin_area>>
       ELSE /\ provider_admin_area' = params._provider.administrative_area
            /\ params' = StripProvider(params)
            /\ Continue("in_write_params")
            /\ UNCHANGED log
  /\ UNCHANGED <<paramsJson, loaded, hook, manifest, manifest0, narrative, samples, idx,
                 subadmins, df, fileVars, normVars, pipeline>>

\* Write revised parameters to a CSV file
InWriteParams ==
  /\ pc = "in_write_params"
  /\ paramsCsv' = WriteParamsFile(params)
  /\ Continue("in_report_params")
  /\ UNCHANGED <<loaded, hook, manifest, manifest0, narrative, log, dataVars,
                 sampleCsv, subadminCsv, xlsx, normVars, pipeline>>

\* Add parameter related content to the log
InReportParams ==
  /\ pc = "in_report_params"
  /\ narrative' =
       model_log_html(
         model_log_html(
           model_log_html(narrative, "Provider area", "p", provider_admin_area),
           "User provided parameters:", "h4", ""),
         "parameter list", "p", "")
  /\ Continue("in_load_samples")
  /\ UNCHANGED <<loaded, hook, manifest, manifest0, log, dataVars, fileVars, normVars, pipeline>>

\* Process Samples: load, then report the record count
InLoadSamples ==
  /\ pc = "in_load_samples"
  /\ \/ \E recs \in SeqsUpTo(PipelineSamples, MaxSamples) :
          /\ samples' = recs
          /\ log' = LogLine(log, "INFO", "Sample file loaded successfully")
          /\ narrative' =
               model_log_html(
                 model_log_html(narrative, "Warehouse data provided to model", "h4", ""),
                 "Samples", "p", ToString(Len(recs)))
          /\ loaded' = loaded \cup {"samples"}
          /\ Continue("in_normalize")
     \/ /\ log' = LogLine(log, "ERROR", "samples.ndjson file does not exist.")
        /\ narrative' = ReportMissingInput(narrative, SamplesMissingMsg)
        /\ ExitMissingInput("samples")
        /\ UNCHANGED <<samples, loaded>>
  /\ UNCHANGED <<paramsJson, hook, manifest, manifest0, params, provider_admin_area, idx,
                 subadmins, df, fileVars, normVars, pipeline>>

\* one iteration of "for sample in samples"
InNormalize ==
  /\ pc = "in_normalize"
  /\ idx <= Len(samples)
  /\ LET r == NormalizeSample(samples[idx])
     IN  /\ samples' = [samples EXCEPT ![idx] = r.rec]
         /\ IF r.raised
              THEN /\ ExitUncaught
                   /\ UNCHANGED idx
              ELSE /\ idx' = idx + 1
                   /\ Continue("in_normalize")
                   /\ UNCHANGED log
  /\ UNCHANGED <<paramsJson, loaded, hook, manifest, manifest0, narrative, params,
                 provider_admin_area, subadmins, df, fileVars, normVars, pipeline>>

\* Write to a CSV (samples)
InWriteSamples ==
  /\ pc = "in_normalize"
  /\ idx > Len(samples)
  /\ sampleCsv' = DictWriterFile(SampleFieldnames, samples)
  /\ Continue("in_load_subadmins")
  /\ UNCHANGED <<loaded, hook, manifest, manifest0, narrative, log, dataVars,
                 paramsCsv, subadminCsv, xlsx, normVars, pipeline>>

\* Process Sub-administrative areas: load
InLoadSubadmins ==
  /\ pc = "in_load_subadmins"
  /\ \/ \E recs \in SeqsUpTo(SubadminRecords, MaxSubadmins) :
          /\ subadmins' = recs
          /\ log' = LogLine(log, "INFO", "Sub-administrative area file loaded successfully")
          /\ loaded' = loaded \cup {"subadmins"}
          /\ Continue("in_subadmin_ids")
          /\ UNCHANGED narrative
     \/ /\ log' = LogLine(log, "ERROR", "sub_administrative_area.json File does not exist.")
        /\ narrative' = ReportMissingInput(narrative, SubadminsMissingMsg)
        /\ ExitMissingInput("subadmins")
        /\ UNCHANGED <<subadmins, loaded>>
  /\ UNCHANGED <<paramsJson, hook, manifest, manifest0, params, provider_admin_area, samples,
                 idx, df, fileVars, normVars, pipeline>>

\* for subadmin in subadmins: set id
InSubadminIds ==
  /\ pc = "in_subadmin_ids"
  /\ subadmins' = [i \in 1..Len(subadmins) |-> SetSubadminId(subadmins[i])]
  /\ Continue("in_write_subadmins")
  /\ UNCHANGED <<paramsJson, loaded, hook, manifest, manifest0, narrative, log, params,
                 provider_admin_area, samples, idx, df, fileVars, normVars, pipeline>>

\* Write to a CSV (sub-areas), log completion, end of script
InWriteSubadmins ==
  /\ pc = "in_write_subadmins"
  /\ subadminCsv' = DictWriterFile(SubadminFieldnames, subadmins)
  /\ log' = LogLine(log, "INFO", "Model input processing successfully completed.")
  /\ ExitOk
  /\ UNCHANGED <<loaded, hook, manifest, manifest0, narrative, dataVars,
                 paramsCsv, sampleCsv, xlsx, normVars, pipeline>>

\* ---------------------------------------------------------- output pipeline
ModelOutputMissingMsg ==
  "SpeedGoatOutputMatrix.csv not found or could not be imported by Pandas."

\* LOGGING CONFIG (the log is appended to), the exception hook, and the
\* "Model Exports" heading
OutStart ==
  /\ pc = "out_start"
  /\ hook' = TRUE
  /\ narrative' = model_log_html(narrative, "Model Exports", "h3", "")
  /\ Continue("out_read_csv")
  /\ UNCHANGED <<loaded, manifest, manifest0, log, dataVars, fileVars, normVars, pipeline>>

\* Read the CSV file into a DataFrame
OutReadCsv ==
  /\ pc = "out_read_csv"
  /\ \/ \E t \in ModelTables :
          /\ df' = t
          /\ loaded' = loaded \cup {"model_output"}
          /\ Continue("out_write_xlsx")
          /\ UNCHANGED <<narrative, log>>
     \/ /\ narrative' = ReportMissingInput(narrative, ModelOutputMissingMsg)
        /\ log' = LogLine(log, "ERROR", ModelOutputMissingMsg)
        /\ ExitMissingInput("model_output")
        /\ UNCHANGED <<df, loaded>>
  /\ UNCHANGED <<paramsJson, hook, manifest, manifest0, params, provider_admin_area, samples,
                 idx, subadmins, fileVars, normVars, pipeline>>

\* df.to_excel(..., index=False): the table verbatim
OutWriteXlsx ==
  /\ pc = "out_write_xlsx"
  /\ xlsx' = [written |-> TRUE, header |-> df.header, rows |-> df.rows]
  /\ Continue("out_attach")
  /\ UNCHANGED <<loaded, hook, manifest, manifest0, narrative, log, dataVars,
                 paramsCsv, sampleCsv, subadminCsv, normVars, pipeline>>

\* Generate the Output Matrix Attachment
OutAttach ==
  /\ pc = "out_attach"
  /\ LET r == add_item_to_json_file_list(manifest, SpreadsheetAttachment)
     IN  /\ manifest' = r.file
         /\ IF r.raised
              THEN ExitUncaught
              ELSE /\ Continue("out_finish")
                   /\ UNCHANGED log
  /\ UNCHANGED <<loaded, hook, manifest0, narrative, dataVars, fileVars, normVars, pipeline>>

\* closing narrative and log lines, end of script
OutFinish ==
  /\ pc = "out_finish"
  /\ narrative' = model_log_html(narrative, "Model exports successfully created.", "p", "")
  /\ log' = LogLine(log, "INFO", "Model output processing successfully completed.")
  /\ ExitOk
  /\ UNCHANGED <<loaded, hook, manifest, manifest0, dataVars, fileVars, normVars, pipeline>>

Next ==
  \/ InSetup
  \/ InLogging
  \/ InNarrative
  \/ InLoadParams
  \/ InProvider
  \/ InWriteParams
  \/ InReportParams
  \/ InLoadSamples
  \/ InNormalize
  \/ InWriteSamples
  \/ InLoadSubadmins
  \/ InSubadminIds
  \/ InWriteSubadmins
  \/ OutStart
  \/ OutReadCsv
  \/ OutWriteXlsx
  \/ OutAttach
  \/ OutFinish

Spec == Init /\ [][Next]_vars

\* ------------------------------------------- the sample normalizer on its own
InitNorm ==
  /\ pipeline = "input"
  /\ pc = "normalizer"
  /\ manifest = [kind |-> "absent", items |-> <<>>]
  /\ manifest0 = manifest
  /\ narrative = <<>>
  /\ log = <<>>
  /\ InitCommon
  /\ normIn \in SampleRecords
  /\ normOut = [raised |-> FALSE, rec |-> normIn]
  /\ normDone = FALSE

\* the body of the sample loop applied to one record
NormalizeOne ==
  /\ pc = "normalizer"
  /\ ~normDone
  /\ normOut' = NormalizeSample(normIn)
  /\ normDone' = TRUE
  /\ UNCHANGED <<pipeline, pc, status, outcome, failedStep, loaded, hook, manifest,
                 manifest0, narrative, log, dataVars, fileVars, normIn>>

NextNorm == NormalizeOne

SpecNorm == InitNorm /\ [][NextNorm]_vars


\* ------------------------------------------------------------------- claims

\* C1 (as stated): a record whose tests list has exactly one entry with
\* selected_definitive = true is normalized to that entry's result, or to null
\* when the entry has no result, whatever top-level result the record carried.
C1_ExactlyOneTakesEntryResult ==
  LET items == normIn.tests.items
      definitive == {i \in 1..Len(items) : items[i].selected_definitive = JTrue}
  IN  (normDone /\ normIn.tests.kind = "list" /\ Cardinality(definitive) = 1) =>
        LET entry == items[CHOOSE i \in definitive : TRUE]
        IN  /\ ~normOut.raised
            /\ normOut.rec.result = IF entry.result = Absent THEN Null ELSE entry.result

C8_IdIsUnderscoreIdOrNull ==
  normDone =>
    normOut.rec.id = IF normIn._id # Absent THEN normIn._id ELSE Null

\* C4 (as stated): when a load step of the input pipeline fails, the invocation
\* has produced none of the three tabular files.
C4_NoTabularFileAfterLoadFailure ==
  (pipeline = "input" /\ outcome = "missing_input") =>
    /\ ~paramsCsv.written
    /\ ~sampleCsv.written
    /\ ~subadminCsv.written

\* C4 (amended): when a load step of the input pipeline fails, the process has
\* exited and has produced neither the tabular file of the failed step nor that
\* of any later step; the files of the earlier steps have been written.
C4_NoFileFromFailedStepOn ==
  (pipeline = "input" /\ outcome = "missing_input") =>
    /\ pc = "exited"
    /\ failedStep \in {"params", "samples", "subadmins"}
    /\ ~subadminCsv.written
    /\ sampleCsv.written <=> failedStep = "subadmins"
    /\ paramsCsv.written <=> failedStep \in {"samples", "subadmins"}

C4_Witness ==
  /\ pipeline = "input"
  /\ outcome = "missing_input"
  /\ failedStep = "subadmins"
  /\ paramsCsv.written
  /\ sampleCsv.written

\* C5: when the parameters document is absent the input pipeline halts with
\* none of the three tabular files produced, and the narrative report holds
\* exactly one error entry (the ERROR heading followed by its message).
C5_ParamsAbsentOneErrorEntry ==
  (pipeline = "input" /\ failedStep = "params") =>
    /\ pc = "exited"
    /\ ~paramsCsv.written /\ ~sampleCsv.written /\ ~subadminCsv.written
    /\ Cardinality({i \in 1..Len(narrative) : narrative[i] = ErrorHeading}) = 1
    /\ Len(narrative) >= 2
    /\ narrative[Len(narrative) - 1] = ErrorHeading
    /\ narrative[Len(narrative)].text = ParamsMissingMsg

C5_Witness ==
  /\ pipeline = "input"
  /\ failedStep = "params"
  /\ pc = "exited"
  /\ \E i \in 1..Len(narrative) : narrative[i] = ErrorHeading

\* C6: in both pipelines a failed load of a mandatory input has, once the
\* process has halted, been recorded in the narrative report and in the
\* execution log, and the exit status is non-zero; the exit status is 0 only
\* when every load step of the invocation succeeded.
C6_MissingInputRecordedAndStatus ==
  /\ outcome = "missing_input" =>
       /\ pc = "exited"
       /\ status # 0
       /\ Len(narrative) >= 2
       /\ narrative[Len(narrative) - 1] = ErrorHeading
       /\ narrative[Len(narrative)].text =
            (CASE failedStep = "params" -> ParamsMissingMsg
               [] failedStep = "samples" -> SamplesMissingMsg
               [] failedStep = "subadmins" -> SubadminsMissingMsg
               [] OTHER -> ModelOutputMissingMsg)
       /\ Len(log) >= 1
       /\ log[Len(log)].level = "ERROR"
       /\ log[Len(log)].msg # UncaughtMsg
  /\ (pc = "exited" /\ status = 0) =>
       loaded = IF pipeline = "input" THEN {"params", "samples", "subadmins"}
                ELSE {"model_output"}

C6_Witness ==
  /\ pipeline = "output"
  /\ outcome = "missing_input"
  /\ failedStep = "model_output"
  /\ status = 1
  /\ log[Len(log)].msg = ModelOutputMissingMsg

\* C7: once the parameter table is written it is one header row and one data
\* row whose columns are exactly the keys of the loaded document other than the
\* provider entry, each cell the rendering of the document's value; it has no
\* provider column and no cell holding the administrative area, which the
\* narrative report carries.
C7_ProviderStripped ==
  paramsCsv.written =>
    LET remaining == SelectSeq(ParamKeyOrder,
                       LAMBDA k : k # "_provider" /\ paramsJson[k] # Absent)
    IN  /\ paramsCsv.header = remaining
        /\ \A j \in 1..Len(paramsCsv.header) : paramsCsv.header[j] # "_provider"
        /\ Len(paramsCsv.rows) = 1
        /\ Len(paramsCsv.rows[1]) = Len(remaining)
        /\ \A j \in 1..Len(remaining) :
             /\ paramsCsv.rows[1][j] = CsvCell(paramsJson[remaining[j]])
             /\ paramsCsv.rows[1][j].text # paramsJson._provider.administrative_area
        /\ provider_admin_area = paramsJson._provider.administrative_area
        /\ pc \notin {"in_write_params", "in_report_params"} =>
             \E i \in 1..Len(narrative) :
               narrative[i].text = "Provider area" /\ narrative[i].arg = provider_admin_area

C7_Witness ==
  /\ paramsCsv.written
  /\ paramsCsv.header = <<"season_year", "species">>
  /\ paramsJson._provider.administrative_area = "NY"

\* C9: in the output pipeline a failed load of the model table leaves the
\* spreadsheet unwritten and the manifest untouched; a successful load with an
\* existing manifest list ends with the spreadsheet written and exactly the
\* spreadsheet entry appended after the unchanged earlier entries; the manifest
\* never changes while the spreadsheet is unwritten.
C9_ManifestFollowsSpreadsheet ==
  pipeline = "output" =>
    /\ failedStep = "model_output" => (~xlsx.written /\ manifest = manifest0)
    /\ manifest # manifest0 =>
         /\ xlsx.written
         /\ manifest.kind = "list"
         /\ manifest.items = Append(manifest0.items, SpreadsheetAttachment)
    /\ (pc = "exited" /\ "model_output" \in loaded /\ manifest0.kind = "list") =>
         /\ outcome = "ok"
         /\ xlsx = [written |-> TRUE, header |-> df.header, rows |-> df.rows]
         /\ manifest.items = Append(manifest0.items, SpreadsheetAttachment)

C9_Witness ==
  /\ pipeline = "output"
  /\ outcome = "ok"
  /\ xlsx.written
  /\ Len(manifest0.items) = 1
  /\ manifest.items = <<manifest0.items[1], SpreadsheetAttachment>>

\* C10 (as stated): a failure that is not handled as Missing-Input, at any point
\* of either pipeline from process start onward, is written to the execution
\* log before the process terminates.
C10_UncaughtAlwaysLogged ==
  outcome = "uncaught" =>
    /\ Len(log) >= 1
    /\ log[Len(log)] = [level |-> "ERROR", msg |-> UncaughtMsg]

====
